---- MODULE Spec2Model ----
(***************************************************************************)
(* The cat collector: the request handlers of main_app/views.py, routed by *)
(* main_app/urls.py, over the tables of main_app/models.py.  One step of   *)
(* the model is one HTTP request handled to completion (the application    *)
(* holds no state between requests besides the database and the session).  *)
(***************************************************************************)
EXTENDS Integers, Sequences, FiniteSets, TLC

(* ------------------------------ bounds -------------------------------- *)
MaxUsers == 2
NumClients == 1
MaxCats == 2
MaxFeedings == 2
MaxToys == 1

(* ----------------------- constants of models.py ----------------------- *)
CatNameMaxLength == 100
CatBreedMaxLength == 100
CatDescriptionMaxLength == 250
MealMaxLength == 1
ToyNameMaxLength == 50
ToyColorMaxLength == 20

MEALS == <<  <<"B", "Breakfast">>, <<"L", "Lunch">>, <<"D", "Dinner">>  >>

MealCodes == {MEALS[i][1] : i \in DOMAIN MEALS}

(* --------------------------- small helpers ---------------------------- *)
Min(S) == CHOOSE x \in S : \A y \in S : x <= y

Max2(a, b) == IF a >= b THEN a ELSE b

DigitVal == [d \in {"0", "1", "2", "3", "4", "5", "6", "7", "8", "9"} |->
               CASE d = "0" -> 0 [] d = "1" -> 1 [] d = "2" -> 2 [] d = "3" -> 3
                 [] d = "4" -> 4 [] d = "5" -> 5 [] d = "6" -> 6 [] d = "7" -> 7
                 [] d = "8" -> 8 [] d = "9" -> 9]

IdStr == <<"1", "2", "3", "4", "5", "6", "7", "8", "9">>

X10 == "xxxxxxxxxx"

X50 == X10 \o X10 \o X10 \o X10 \o X10

(* strings one character over each max_length *)
Long21 == X10 \o X10 \o "x"

Long51 == X50 \o "x"

Long101 == X50 \o X50 \o "x"

Long251 == X50 \o X50 \o X50 \o X50 \o X50 \o "x"

(* The text of a number as a sequence of characters: what int() accepts.  *)
AllDigits(cs) == \A i \in DOMAIN cs : cs[i] \in DOMAIN DigitVal

IsIntText(cs) ==
    /\ Len(cs) > 0
    /\ IF cs[1] = "-" THEN Len(cs) > 1 /\ AllDigits(Tail(cs)) ELSE AllDigits(cs)

RECURSIVE DigitsValue(_)
DigitsValue(cs) ==
    IF cs = <<>> THEN 0
    ELSE 10 * DigitsValue(SubSeq(cs, 1, Len(cs) - 1)) + DigitVal[cs[Len(cs)]]

ParseInt(cs) == IF cs[1] = "-" THEN 0 - DigitsValue(Tail(cs)) ELSE DigitsValue(cs)

(* ------------------------------ routing ------------------------------- *)
Lit(s) == <<"lit", s>>

IntConv(name) == <<"int", name>>

urlpatterns == <<
    [route |-> <<>>, view |-> "Home", name |-> "home"],
    [route |-> <<Lit("home")>>, view |-> "homeTwo", name |-> "home"],
    [route |-> <<Lit("about")>>, view |-> "about", name |-> "about"],
    [route |-> <<Lit("cats")>>, view |-> "cat_index", name |-> "cat-index"],
    [route |-> <<Lit("cats"), IntConv("cat_id")>>, view |-> "cat_detail", name |-> "cat-detail"],
    [route |-> <<Lit("cats"), Lit("create")>>, view |-> "CatCreate", name |-> "cat-create"],
    [route |-> <<Lit("cats"), IntConv("pk"), Lit("update")>>, view |-> "CatUpdate", name |-> "cat-update"],
    [route |-> <<Lit("cats"), IntConv("pk"), Lit("delete")>>, view |-> "CatDelete", name |-> "cat-delete"],
    [route |-> <<Lit("cats"), IntConv("cat_id"), Lit("add_feeding")>>, view |-> "add_feeding", name |-> "add_feeding"],
    [route |-> <<Lit("toys"), Lit("create")>>, view |-> "ToyCreate", name |-> "toy-create"],
    [route |-> <<Lit("toys"), IntConv("pk")>>, view |-> "toy_detail", name |-> "toy-detail"],
    [route |-> <<Lit("toys")>>, view |-> "ToyList", name |-> "toy-index"],
    [route |-> <<Lit("accounts"), Lit("signup")>>, view |-> "signup", name |-> "signup"] >>

(* path(): a route matches a path segment by segment; <int:x> takes a    *)
(* segment of digits.                                                     *)
SegMatch(pat, seg) ==
    IF pat[1] = "lit" THEN seg = pat[2] ELSE seg \in DOMAIN DigitVal

Match(route, path) ==
    /\ Len(route) = Len(path)
    /\ \A i \in DOMAIN route : SegMatch(route[i], path[i])

(* the captured integer of the route (no route captures two), 0 if none   *)
Captured(route, path) ==
    LET caps == {i \in DOMAIN route : route[i][1] = "int"}
    IN IF caps = {} THEN 0 ELSE DigitVal[path[Min(caps)]]

(* the first pattern that matches decides *)
ResolveIn(patterns, path) ==
    LET hits == {i \in DOMAIN patterns : Match(patterns[i].route, path)}
    IN IF hits = {} THEN [view |-> "Resolver404", arg |-> 0]
       ELSE [view |-> patterns[Min(hits)].view,
             arg |-> Captured(patterns[Min(hits)].route, path)]

(* the routes with the two Toy editing views wired in *)
resolve_WithToyEdit(path) ==
    ResolveIn(urlpatterns \o
              << [route |-> <<Lit("toys"), IntConv("pk"), Lit("update")>>,
                  view |-> "ToyUpdate", name |-> "toy-update"],
                 [route |-> <<Lit("toys"), IntConv("pk"), Lit("delete")>>,
                  view |-> "ToyDelete", name |-> "toy-delete"] >>, path)

resolve(path) == ResolveIn(urlpatterns, path)

PathIds == {IdStr[i] : i \in 1..Max2(MaxCats, MaxToys)}

Paths ==
    {<<>>, <<"home">>, <<"about">>, <<"cats">>, <<"cats", "create">>,
     <<"toys">>, <<"toys", "create">>, <<"accounts", "signup">>}
    \cup {<<"cats", i>> : i \in PathIds}
    \cup {<<"toys", i>> : i \in PathIds}
    \cup {<<"cats", i, a>> : i \in PathIds, a \in {"update", "delete", "add_feeding"}}
    \cup {<<"toys", i, a>> : i \in PathIds, a \in {"update", "delete"}}

VARIABLES users, session, cats, feedings, toys, seq, request, response

vars == <<users, session, cats, feedings, toys, seq, request, response>>

tables == <<users, cats, feedings, toys, seq>>

(* ------------------------- forms and payloads ------------------------- *)
Clients == 1..NumClients

UserIds == 1..MaxUsers

Anonymous == 0

NamePool == <<"alice", "bob", "carol", "dave">>

Usernames == {NamePool[i] : i \in 1..MaxUsers}

(* request.POST: a key the client did not send reads as missing *)
EmptyPost == [k \in {} |-> ""]

Field(post, k, missing) == IF k \in DOMAIN post THEN post[k] ELSE missing

(* forms.CharField of a CharField/TextField: required, at most max_length *)
CharFieldValid(v, max_length) == v # "" /\ Len(v) <= max_length

CatFieldValid(f, post) ==
    CASE f = "name" -> CharFieldValid(Field(post, f, ""), CatNameMaxLength)
      [] f = "breed" -> CharFieldValid(Field(post, f, ""), CatBreedMaxLength)
      [] f = "description" -> CharFieldValid(Field(post, f, ""), CatDescriptionMaxLength)
      [] f = "age" -> IsIntText(Field(post, f, <<>>))

CatClean(f, v) == IF f = "age" THEN ParseInt(v) ELSE v

CatCreateFields == {"name", "breed", "description", "age"}

(* an update form that also declares the name *)
CatUpdateFields_WithName == {"name", "breed", "description", "age"}

CatUpdateFields == {"breed", "description", "age"}

(* a ModelForm reads the fields it declares and no other key of the POST  *)
CatFormValid(post, fields) == \A f \in fields : CatFieldValid(f, post)

CatFormSave(instance, post, fields) ==
    [f \in DOMAIN instance |-> IF f \in fields THEN CatClean(f, post[f]) ELSE instance[f]]

NewCat == [name |-> "", breed |-> "", description |-> "", age |-> 0,
           user |-> Anonymous, toys |-> {}]

CatPost(name, breed, description, age) ==
    [name |-> name, breed |-> breed, description |-> description, age |-> age]

WithUser(post, u) == [k \in DOMAIN post \cup {"user"} |-> IF k = "user" THEN u ELSE post[k]]

(* submitted create forms: a valid one, alone and with every owner a      *)
(* client may add to it, and invalid ones                                 *)
CatCreatePosts ==
    {WithUser(CatPost("Whiskers", "Tabby", "calm", <<"2">>), u) : u \in UserIds}
    \cup {CatPost("Whiskers", "Tabby", "calm", <<"2">>),
          CatPost("", "Tabby", "calm", <<"2">>),
          CatPost(Long101, "Tabby", "calm", <<"2">>),
          CatPost("Whiskers", "Tabby", Long251, <<"2">>),
          CatPost("Whiskers", "Tabby", "calm", <<"x">>),
          [name |-> "Whiskers"]}

(* submitted update forms: valid ones, which also carry another name and  *)
(* an owner, and invalid ones                                             *)
CatUpdatePosts ==
    {WithUser(CatPost("Tom", "Siamese", "shy", <<"1", "2">>), u) : u \in UserIds}
    \cup {CatPost("Tom", "Tabby", "calm", <<"2">>),
          CatPost("Tom", Long101, "calm", <<"2">>),
          CatPost("Tom", "Tabby", "calm", <<"x">>),
          [name |-> "Tom"]}

ToyFieldValid(f, post) ==
    CASE f = "name" -> CharFieldValid(Field(post, f, ""), ToyNameMaxLength)
      [] f = "color" -> CharFieldValid(Field(post, f, ""), ToyColorMaxLength)

ToyFields == {"name", "color"}

ToyFormValid(post) == \A f \in ToyFields : ToyFieldValid(f, post)

ToyPosts ==
    {[name |-> "ball", color |-> "red"], [name |-> "mouse"],
     [name |-> Long51, color |-> "red"], [name |-> "ball", color |-> Long21],
     [color |-> "red"]}

(* the calendar check of a submitted date <<year, month, day>>; <<>> is a *)
(* missing date                                                           *)
IsLeap(y) == (y % 4 = 0 /\ y % 100 # 0) \/ y % 400 = 0

DaysInMonth(y, m) ==
    CASE m \in {1, 3, 5, 7, 8, 10, 12} -> 31
      [] m \in {4, 6, 9, 11} -> 30
      [] m = 2 -> IF IsLeap(y) THEN 29 ELSE 28

DateValid(d) ==
    /\ Len(d) = 3
    /\ d[1] \in 1..9999
    /\ d[2] \in 1..12
    /\ d[3] \in 1..DaysInMonth(d[1], d[2])

(* a meal field without its choices *)
MealValid_AnyCode(v) == v # "" /\ Len(v) <= MealMaxLength

(* Feeding.meal: one of the choices, within max_length; required *)
MealValid(v) == v \in MealCodes /\ Len(v) <= MealMaxLength

FeedingFormValid(post) ==
    DateValid(Field(post, "date", <<>>)) /\ MealValid(Field(post, "meal", ""))

FeedingPosts ==
    {[date |-> <<2024, 2, 29>>, meal |-> "D"],
     [date |-> <<2024, 1, 1>>, meal |-> "X"],
     [date |-> <<2024, 1, 1>>],
     [date |-> <<2023, 2, 29>>, meal |-> "B"],
     [meal |-> "L"]}

(* a signup form that does not compare the two passwords *)
SignupFormValid_NoConfirm(post) ==
    /\ Field(post, "username", "") # ""
    /\ \A i \in DOMAIN users : users[i].username # post.username
    /\ Field(post, "password1", "") # ""

(* UserCreationForm: a username not yet taken, a password given twice *)
SignupFormValid(post) ==
    /\ Field(post, "username", "") # ""
    /\ \A i \in DOMAIN users : users[i].username # post.username
    /\ Field(post, "password1", "") # ""
    /\ Field(post, "password2", "") = post.password1

SignupPosts ==
    {[username |-> n, password1 |-> "pw1", password2 |-> pw2] :
        n \in Usernames, pw2 \in {"pw1", "pw2"}}
    \cup {[password1 |-> "pw1", password2 |-> "pw1"],
          [username |-> NamePool[1], password1 |-> "pw1"]}

LoginPosts ==
    {[username |-> n, password |-> "pw1"] : n \in Usernames}
    \cup {[username |-> NamePool[1], password |-> "pw2"]}

(* authenticate(): the ids of the users with these credentials *)
authenticate(post) ==
    {i \in DOMAIN users :
        /\ users[i].username = Field(post, "username", "")
        /\ users[i].password = Field(post, "password", "")}

(* the forms a client posts to a view, and the methods it uses on it *)
PostsTo(view) ==
    CASE view = "Home" -> LoginPosts
      [] view = "CatCreate" -> CatCreatePosts
      [] view = "CatUpdate" -> CatUpdatePosts
      [] view = "add_feeding" -> FeedingPosts
      [] view \in {"ToyCreate", "ToyUpdate"} -> ToyPosts
      [] view = "signup" -> SignupPosts
      [] OTHER -> {EmptyPost}

PostedTo == {"Home", "CatCreate", "CatUpdate", "CatDelete", "add_feeding", "ToyCreate",
             "ToyUpdate", "ToyDelete", "signup", "Resolver404"}

HttpRequest(client, method, path, post) ==
    [client |-> client, method |-> method, path |-> path, post |-> post]

(* ----------------------------- responses ------------------------------ *)
HttpResponse(view, status, to, pk, objs, msg) ==
    [view |-> view, status |-> status, to |-> to, pk |-> pk, objs |-> objs,
     error_message |-> msg]

(* before the first request, and between requests when a session ends *)
NoRequest == HttpRequest(1, "none", <<>>, EmptyPost)

NoResponse == HttpResponse("none", "none", "", 0, {}, "")

Init ==
    /\ users = <<>>
    /\ session = [s \in Clients |-> Anonymous]
    /\ cats = <<>>
    /\ feedings = <<>>
    /\ toys = <<>>
    /\ seq = [cat |-> 0, feeding |-> 0, toy |-> 0]
    /\ request = NoRequest
    /\ response = NoResponse

(* ------------------------------ queries ------------------------------- *)
(* request.user *)
User(req) == session[req.client]

(* the list without its owner filter *)
CatFilter_AllCats(user) == DOMAIN cats

(* Cat.objects.filter(user=request.user) *)
CatFilter(user) == {c \in DOMAIN cats : cats[c].user = user}

(* the lookup by id alone *)
CatGet_AnyOwner(cat_id, user) == {c \in DOMAIN cats : c = cat_id}

(* Cat.objects.get(id=cat_id, user=request.user): empty is DoesNotExist *)
CatGet(cat_id, user) == {c \in DOMAIN cats : c = cat_id /\ cats[c].user = user}

(* a foreign key that does nothing on delete *)
Cascade_Keep(fs, pk) == fs

(* Feeding.cat, on_delete=CASCADE: the feedings left when cat pk goes *)
Cascade(fs, pk) == [f \in {g \in DOMAIN fs : fs[g].cat # pk} |-> fs[f]]

(* --------------------------- access control --------------------------- *)
LoginRedirect(view) ==
    /\ response' = HttpResponse(view, "redirect", "login", 0, {}, "")
    /\ UNCHANGED <<tables, session>>

(* @login_required on a function view *)
login_required(req, view, Handler) ==
    IF User(req) = Anonymous THEN LoginRedirect(view) ELSE Handler

(* a class-based view without the mixin *)
LoginRequiredMixin_Off(req, view, Handler) == Handler

(* LoginRequiredMixin on a class-based view *)
LoginRequiredMixin(req, view, Handler) ==
    IF User(req) = Anonymous THEN LoginRedirect(view) ELSE Handler

(* ------------------------- the static pages --------------------------- *)
(* LoginView: a POST with the credentials of a user logs the session in *)
Home(req) ==
    /\ UNCHANGED tables
    /\ IF req.method = "POST" /\ authenticate(req.post) # {}
       THEN /\ session' = [session EXCEPT ![req.client] = Min(authenticate(req.post))]
            /\ response' = HttpResponse("Home", "redirect", "LOGIN_REDIRECT_URL", 0, {}, "")
       ELSE /\ UNCHANGED session
            /\ response' = HttpResponse("Home", "render", "home.html", 0, {}, "")

homeTwo(req) ==
    /\ response' = HttpResponse("homeTwo", "render", "home.html", 0, {}, "")
    /\ UNCHANGED <<tables, session>>

about(req) ==
    /\ response' = HttpResponse("about", "render", "about.html", 0, {}, "")
    /\ UNCHANGED <<tables, session>>

Resolver404(req) ==
    /\ response' = HttpResponse("Resolver404", "Http404", "", 0, {}, "")
    /\ UNCHANGED <<tables, session>>

(* ------------------------------- cats --------------------------------- *)
cat_index(req) ==
    login_required(req, "cat_index",
        /\ response' = HttpResponse("cat_index", "render", "cats/index.html", 0,
                                    CatFilter(User(req)), "")
        /\ UNCHANGED <<tables, session>>)

cat_detail(req, cat_id) ==
    login_required(req, "cat_detail",
        /\ response' =
              IF CatGet(cat_id, User(req)) = {}
              THEN HttpResponse("cat_detail", "DoesNotExist", "", cat_id, {}, "")
              ELSE HttpResponse("cat_detail", "render", "cats/detail.html", cat_id,
                                CatGet(cat_id, User(req)), "")
        /\ UNCHANGED <<tables, session>>)

(* the owner taken from the submitted form when it carries one *)
form_valid_PostedUser(instance, req) ==
    [instance EXCEPT !.user = Field(req.post, "user", session[req.client])]

(* CatCreate.form_valid: the owner is the session's user *)
form_valid(instance, req) == [instance EXCEPT !.user = User(req)]

CatCreate(req) ==
    LoginRequiredMixin(req, "CatCreate",
        IF req.method = "POST" /\ CatFormValid(req.post, CatCreateFields)
        THEN /\ seq.cat < MaxCats
             /\ cats' = cats @@ ((seq.cat + 1) :>
                    form_valid(CatFormSave(NewCat, req.post, CatCreateFields), req))
             /\ seq' = [seq EXCEPT !.cat = seq.cat + 1]
             /\ response' = HttpResponse("CatCreate", "redirect", "cat-detail", seq.cat + 1,
                                         {seq.cat + 1}, "")
             /\ UNCHANGED <<users, feedings, toys, session>>
        ELSE /\ response' = HttpResponse("CatCreate", "render", "main_app/cat_form.html",
                                         0, {}, "")
             /\ UNCHANGED <<tables, session>>)

(* UpdateView.get_object looks the row up by pk alone *)
CatUpdate(req, pk) ==
    LoginRequiredMixin(req, "CatUpdate",
        IF pk \notin DOMAIN cats
        THEN /\ response' = HttpResponse("CatUpdate", "Http404", "", pk, {}, "")
             /\ UNCHANGED <<tables, session>>
        ELSE IF req.method = "POST" /\ CatFormValid(req.post, CatUpdateFields)
        THEN /\ cats' = [cats EXCEPT ![pk] = CatFormSave(cats[pk], req.post, CatUpdateFields)]
             /\ response' = HttpResponse("CatUpdate", "redirect", "cat-detail", pk, {pk}, "")
             /\ UNCHANGED <<users, feedings, toys, seq, session>>
        ELSE /\ response' = HttpResponse("CatUpdate", "render", "main_app/cat_form.html",
                                         pk, {pk}, "")
             /\ UNCHANGED <<tables, session>>)

CatDelete(req, pk) ==
    LoginRequiredMixin(req, "CatDelete",
        IF pk \notin DOMAIN cats
        THEN /\ response' = HttpResponse("CatDelete", "Http404", "", pk, {}, "")
             /\ UNCHANGED <<tables, session>>
        ELSE IF req.method = "POST"
        THEN /\ cats' = [c \in DOMAIN cats \ {pk} |-> cats[c]]
             /\ feedings' = Cascade(feedings, pk)
             /\ response' = HttpResponse("CatDelete", "redirect", "/cats/", pk, {}, "")
             /\ UNCHANGED <<users, toys, seq, session>>
        ELSE /\ response' = HttpResponse("CatDelete", "render",
                                         "main_app/cat_confirm_delete.html", pk, {pk}, "")
             /\ UNCHANGED <<tables, session>>)

(* ------------------------------ feedings ------------------------------ *)
add_feeding(req, cat_id) ==
    login_required(req, "add_feeding",
        IF CatGet(cat_id, User(req)) = {}
        THEN /\ response' = HttpResponse("add_feeding", "DoesNotExist", "", cat_id, {}, "")
             /\ UNCHANGED <<tables, session>>
        ELSE /\ IF FeedingFormValid(req.post)
                THEN /\ seq.feeding < MaxFeedings
                     /\ feedings' = feedings @@ ((seq.feeding + 1) :>
                            [date |-> req.post.date, meal |-> req.post.meal, cat |-> cat_id])
                     /\ seq' = [seq EXCEPT !.feeding = seq.feeding + 1]
                ELSE UNCHANGED <<feedings, seq>>
             /\ response' = HttpResponse("add_feeding", "redirect", "cat-detail", cat_id, {}, "")
             /\ UNCHANGED <<users, cats, toys, session>>)

(* ------------------------------- toys --------------------------------- *)
toy_detail(req, pk) ==
    login_required(req, "toy_detail",
        /\ response' =
              IF pk \in DOMAIN toys
              THEN HttpResponse("toy_detail", "render", "main_app/toy_detail.html", pk, {pk}, "")
              ELSE HttpResponse("toy_detail", "DoesNotExist", "", pk, {}, "")
        /\ UNCHANGED <<tables, session>>)

ToyCreate(req) ==
    IF req.method = "POST" /\ ToyFormValid(req.post)
    THEN /\ seq.toy < MaxToys
         /\ toys' = toys @@ ((seq.toy + 1) :>
                [name |-> req.post.name, color |-> req.post.color])
         /\ seq' = [seq EXCEPT !.toy = seq.toy + 1]
         /\ response' = HttpResponse("ToyCreate", "redirect", "toy-detail", seq.toy + 1,
                                     {seq.toy + 1}, "")
         /\ UNCHANGED <<users, cats, feedings, session>>
    ELSE /\ response' = HttpResponse("ToyCreate", "render", "main_app/toy_form.html", 0, {}, "")
         /\ UNCHANGED <<tables, session>>

ToyList(req) ==
    /\ response' = HttpResponse("ToyList", "render", "main_app/toy_list.html", 0,
                                DOMAIN toys, "")
    /\ UNCHANGED <<tables, session>>

ToyDetail(req, pk) ==
    /\ response' =
          IF pk \in DOMAIN toys
          THEN HttpResponse("ToyDetail", "render", "main_app/toy_detail.html", pk, {pk}, "")
          ELSE HttpResponse("ToyDetail", "Http404", "", pk, {}, "")
    /\ UNCHANGED <<tables, session>>

ToyUpdate(req, pk) ==
    IF pk \notin DOMAIN toys
    THEN /\ response' = HttpResponse("ToyUpdate", "Http404", "", pk, {}, "")
         /\ UNCHANGED <<tables, session>>
    ELSE IF req.method = "POST" /\ ToyFormValid(req.post)
    THEN /\ toys' = [toys EXCEPT ![pk] = [name |-> req.post.name, color |-> req.post.color]]
         /\ response' = HttpResponse("ToyUpdate", "redirect", "toy-detail", pk, {pk}, "")
         /\ UNCHANGED <<users, cats, feedings, seq, session>>
    ELSE /\ response' = HttpResponse("ToyUpdate", "render", "main_app/toy_form.html",
                                     pk, {pk}, "")
         /\ UNCHANGED <<tables, session>>

ToyDelete(req, pk) ==
    IF pk \notin DOMAIN toys
    THEN /\ response' = HttpResponse("ToyDelete", "Http404", "", pk, {}, "")
         /\ UNCHANGED <<tables, session>>
    ELSE IF req.method = "POST"
    THEN /\ toys' = [t \in DOMAIN toys \ {pk} |-> toys[t]]
         /\ response' = HttpResponse("ToyDelete", "redirect", "/toys/", pk, {}, "")
         /\ UNCHANGED <<users, cats, feedings, seq, session>>
    ELSE /\ response' = HttpResponse("ToyDelete", "render",
                                     "main_app/toy_confirm_delete.html", pk, {pk}, "")
         /\ UNCHANGED <<tables, session>>

ToyViewClasses == {"ToyCreate", "ToyList", "ToyDetail", "ToyUpdate", "ToyDelete"}

(* as_view() of a generic Toy view, each behind LoginRequiredMixin *)
ToyView(view, req, pk) ==
    LoginRequiredMixin(req, view,
        CASE view = "ToyCreate" -> ToyCreate(req)
          [] view = "ToyList" -> ToyList(req)
          [] view = "ToyDetail" -> ToyDetail(req, pk)
          [] view = "ToyUpdate" -> ToyUpdate(req, pk)
          [] view = "ToyDelete" -> ToyDelete(req, pk))

(* ------------------------------ accounts ------------------------------ *)
(* a session ends (its cookie expires or the client drops it): the client *)
(* is anonymous again                                                     *)
SessionEnds(s) ==
    /\ session[s] # Anonymous
    /\ session' = [session EXCEPT ![s] = Anonymous]
    /\ request' = NoRequest
    /\ response' = NoResponse
    /\ UNCHANGED tables

signup(req) ==
    IF req.method = "POST"
    THEN IF SignupFormValid(req.post)
         THEN /\ Len(users) < MaxUsers
              /\ users' = Append(users, [username |-> req.post.username,
                                         password |-> req.post.password1])
              /\ session' = [session EXCEPT ![req.client] = Len(users) + 1]
              /\ response' = HttpResponse("signup", "redirect", "cat-index", 0, {}, "")
              /\ UNCHANGED <<cats, feedings, toys, seq>>
         ELSE /\ response' = HttpResponse("signup", "render", "signup.html", 0, {},
                                          "Invalid sign up - try again")
              /\ UNCHANGED <<tables, session>>
    ELSE /\ response' = HttpResponse("signup", "render", "signup.html", 0, {}, "")
         /\ UNCHANGED <<tables, session>>

(* --------------------------- the dispatcher --------------------------- *)
(* every path a client may ask for, resolved *)
Resolved == [path \in Paths |-> resolve(path)]

Requests ==
    {HttpRequest(s, "GET", path, EmptyPost) : s \in Clients, path \in Paths}
    \cup UNION {{HttpRequest(s, "POST", path, post) : s \in Clients,
                                                      post \in PostsTo(Resolved[path].view)} :
                path \in {p \in Paths : Resolved[p].view \in PostedTo}}

Views == {Resolved[p].view : p \in Paths}

(* the requests the URL resolver hands to each view *)
RequestsTo == [view \in Views \cup ToyViewClasses |->
                  {req \in Requests : Resolved[req.path].view = view}]

(* the integer the route captured: cat_id or pk *)
Arg(req) == Resolved[req.path].arg

(* one step: one request, answered by the view its path resolves to *)
Next ==
    \/ \E req \in RequestsTo["Home"] : request' = req /\ Home(req)
    \/ \E req \in RequestsTo["homeTwo"] : request' = req /\ homeTwo(req)
    \/ \E req \in RequestsTo["about"] : request' = req /\ about(req)
    \/ \E req \in RequestsTo["cat_index"] : request' = req /\ cat_index(req)
    \/ \E req \in RequestsTo["cat_detail"] : request' = req /\ cat_detail(req, Arg(req))
    \/ \E req \in RequestsTo["CatCreate"] : request' = req /\ CatCreate(req)
    \/ \E req \in RequestsTo["CatUpdate"] : request' = req /\ CatUpdate(req, Arg(req))
    \/ \E req \in RequestsTo["CatDelete"] : request' = req /\ CatDelete(req, Arg(req))
    \/ \E req \in RequestsTo["add_feeding"] : request' = req /\ add_feeding(req, Arg(req))
    \/ \E req \in RequestsTo["toy_detail"] : request' = req /\ toy_detail(req, Arg(req))
    \/ \E view \in ToyViewClasses : \E req \in RequestsTo[view] :
          request' = req /\ ToyView(view, req, Arg(req))
    \/ \E req \in RequestsTo["signup"] : request' = req /\ signup(req)
    \/ \E req \in RequestsTo["Resolver404"] : request' = req /\ Resolver404(req)
    \/ \E s \in Clients : SessionEnds(s)

Spec == Init /\ [][Next]_vars

(* ============================== claims ================================ *)
(* the view the request just answered was routed to, and its argument *)
ViewOf(req) == Resolved[req.path].view

AuthRequired == {"cat_index", "cat_detail", "CatCreate", "CatUpdate", "CatDelete",
                 "add_feeding", "ToyCreate", "toy_detail", "ToyList"}

(* C1: no POST to /cats/{c}/update/ or /cats/{c}/delete/ from the session *)
(* of an authenticated user other than the owner of cat c changes or      *)
(* removes cat c.                                                         *)
C1_OnlyOwnerEdits ==
    [][\A c \in DOMAIN cats :
          (/\ request'.method = "POST"
           /\ ViewOf(request') \in {"CatUpdate", "CatDelete"}
           /\ Arg(request') = c
           /\ session[request'.client] \notin {Anonymous, cats[c].user})
          => (c \in DOMAIN cats' /\ cats'[c] = cats[c])]_vars

(* C2: the cat list answered to a session holds exactly the existing cats *)
(* owned by the session's user, and the cat detail answers with the cat   *)
(* only when the session's user owns it, with DoesNotExist otherwise.     *)
C2_OwnerScopedVisibility ==
    LET u == session[request.client]
        id == Arg(request)
    IN /\ (response.view = "cat_index" /\ response.status = "render")
            => response.objs = {c \in DOMAIN cats : cats[c].user = u}
       /\ (ViewOf(request) = "cat_detail" /\ request.method # "none" /\ u # Anonymous)
            => IF id \in DOMAIN cats /\ cats[id].user = u
               THEN response.status = "render" /\ response.objs = {id}
               ELSE response.status = "DoesNotExist" /\ response.objs = {}

C2_Witness ==
    /\ response.view = "cat_index"
    /\ response.status = "render"
    /\ response.objs # {}
    /\ \E c \in DOMAIN cats : c \notin response.objs

(* C3: a cat appears only by a valid POST to the create form, owned by    *)
(* the user of the session that posted it whatever owner the payload      *)
(* carries, and no cat's owner ever changes afterwards.                   *)
C3_CreateAssignsSessionUser ==
    [][\A c \in DOMAIN cats' :
          IF c \in DOMAIN cats
          THEN cats'[c].user = cats[c].user
          ELSE /\ ViewOf(request') = "CatCreate"
               /\ request'.method = "POST"
               /\ session[request'.client] # Anonymous
               /\ cats'[c].user = session[request'.client]]_vars

C3_Witness ==
    /\ response.view = "CatCreate"
    /\ response.status = "redirect"
    /\ "user" \in DOMAIN request.post
    /\ request.post.user # session[request.client]
    /\ response.pk \in DOMAIN cats
    /\ cats[response.pk].user = session[request.client]

(* C4: a request to /cats/{id}/update/ leaves the set of cat ids, the     *)
(* name, owner and toys of cat id, every other cat, every feeding and     *)
(* every toy as they were, whatever the payload carries.                  *)
C4_UpdateFrame ==
    [][(ViewOf(request') = "CatUpdate" /\ request'.method # "none")
          => /\ DOMAIN cats' = DOMAIN cats
             /\ \A c \in DOMAIN cats :
                   IF c = Arg(request')
                   THEN /\ cats'[c].name = cats[c].name
                        /\ cats'[c].user = cats[c].user
                        /\ cats'[c].toys = cats[c].toys
                   ELSE cats'[c] = cats[c]
             /\ feedings' = feedings
             /\ toys' = toys
             /\ seq' = seq]_vars

C4_Witness ==
    /\ response.view = "CatUpdate"
    /\ response.status = "redirect"
    /\ "name" \in DOMAIN request.post
    /\ "user" \in DOMAIN request.post
    /\ response.pk \in DOMAIN cats
    /\ request.post.name # cats[response.pk].name
    /\ request.post.user # cats[response.pk].user
    /\ cats[response.pk].breed = request.post.breed
    /\ Cardinality(DOMAIN cats) > 1

(* C5: every feeding refers to a cat that exists, and a delete of cat pk  *)
(* removes cat pk with exactly the feedings of cat pk.                    *)
C5_CascadeNoOrphans ==
    /\ [](\A f \in DOMAIN feedings : feedings[f].cat \in DOMAIN cats)
    /\ [][\A pk \in DOMAIN cats \ DOMAIN cats' :
             /\ DOMAIN feedings' = {f \in DOMAIN feedings : feedings[f].cat # pk}
             /\ \A f \in DOMAIN feedings' : feedings'[f] = feedings[f]
             /\ DOMAIN cats' = DOMAIN cats \ {pk}]_vars

C5_Witness ==
    /\ response.view = "CatDelete"
    /\ response.status = "redirect"
    /\ DOMAIN feedings # {}
    /\ Cardinality(DOMAIN feedings) < seq.feeding

(* C6: an add-feeding request from the session of the cat's owner whose   *)
(* meal code is not B, L or D, or whose date is missing or malformed,     *)
(* changes no table and is answered by a redirect to that cat's detail.   *)
C6_InvalidFeedingDropped ==
    [][(/\ ViewOf(request') = "add_feeding"
        /\ request'.method # "none"
        /\ CatGet(Arg(request'), session[request'.client]) # {}
        /\ session[request'.client] # Anonymous
        /\ \/ Field(request'.post, "meal", "") \notin {"B", "L", "D"}
           \/ ~DateValid(Field(request'.post, "date", <<>>)))
          => /\ UNCHANGED <<tables, session>>
             /\ response'.status = "redirect"
             /\ response'.to = "cat-detail"
             /\ response'.pk = Arg(request')]_vars

C6_Witness ==
    /\ ViewOf(request) = "add_feeding"
    /\ request.method = "POST"
    /\ "meal" \in DOMAIN request.post
    /\ request.post.meal \notin {"B", "L", "D"}
    /\ DateValid(Field(request.post, "date", <<>>))
    /\ response.status = "redirect"
    /\ response.to = "cat-detail"
    /\ response.pk = Arg(request)
    /\ seq.feeding = 0

(* C7: a feeding appears only by an add-feeding request for a cat that    *)
(* exists and is owned by the session's user, attached to that cat; for a *)
(* cat that does not exist or is another user's the request fails with    *)
(* DoesNotExist and writes nothing.                                       *)
C7_FeedingOwnerScoped ==
    [][LET u == session[request'.client]
           id == Arg(request')
       IN /\ \A f \in DOMAIN feedings' \ DOMAIN feedings :
                /\ ViewOf(request') = "add_feeding"
                /\ u # Anonymous
                /\ id \in DOMAIN cats
                /\ cats[id].user = u
                /\ feedings'[f].cat = id
          /\ (/\ ViewOf(request') = "add_feeding"
              /\ request'.method # "none"
              /\ u # Anonymous
              /\ (id \notin DOMAIN cats \/ cats[id].user # u))
               => (response'.status = "DoesNotExist" /\ UNCHANGED <<tables, session>>)]_vars

C7_Witness ==
    /\ ViewOf(request) = "add_feeding"
    /\ FeedingFormValid(request.post)
    /\ Arg(request) \in DOMAIN cats
    /\ session[request.client] \notin {Anonymous, cats[Arg(request)].user}
    /\ response.status = "DoesNotExist"
    /\ seq.feeding < MaxFeedings

(* C8: a signup POST whose two passwords differ (or that is otherwise     *)
(* invalid) creates no user, logs nobody in and shows the form again with *)
(* 'Invalid sign up - try again'; a user appears only by a valid signup   *)
(* POST, which logs the session in as that user and redirects to the cat  *)
(* list.                                                                  *)
C8_SignupValidation ==
    [][LET post == request'.post
       IN /\ (/\ ViewOf(request') = "signup"
              /\ request'.method = "POST"
              /\ \/ Field(post, "password1", "") # Field(post, "password2", "")
                 \/ ~SignupFormValid(post))
               => /\ UNCHANGED <<tables, session>>
                  /\ response'.status = "render"
                  /\ response'.to = "signup.html"
                  /\ response'.error_message = "Invalid sign up - try again"
          /\ users' # users
               => /\ ViewOf(request') = "signup"
                  /\ request'.method = "POST"
                  /\ SignupFormValid(post)
                  /\ users' = Append(users, [username |-> post.username,
                                             password |-> post.password1])
                  /\ session' = [session EXCEPT ![request'.client] = Len(users')]
                  /\ response'.status = "redirect"
                  /\ response'.to = "cat-index"]_vars

C8_Witness ==
    /\ ViewOf(request) = "signup"
    /\ request.method = "POST"
    /\ DOMAIN request.post = {"username", "password1", "password2"}
    /\ request.post.password1 # request.post.password2
    /\ \A i \in DOMAIN users : users[i].username # request.post.username
    /\ response.error_message = "Invalid sign up - try again"
    /\ session[request.client] = Anonymous

(* C9: a request from a session with no authenticated user to a route     *)
(* that requires login is answered by a redirect to login and changes no  *)
(* table.                                                                 *)
C9_AnonymousRejected ==
    [][(/\ session[request'.client] = Anonymous
        /\ request'.method # "none"
        /\ ViewOf(request') \in AuthRequired)
          => /\ UNCHANGED <<tables, session>>
             /\ response'.status = "redirect"
             /\ response'.to = "login"]_vars

C9_Witness ==
    /\ session[request.client] = Anonymous
    /\ request.method = "POST"
    /\ ViewOf(request) = "CatDelete"
    /\ Arg(request) \in DOMAIN cats
    /\ \E f \in DOMAIN feedings : feedings[f].cat = Arg(request)
    /\ DOMAIN toys # {}
    /\ response.to = "login"

(* C10: no path resolves to ToyUpdate or ToyDelete, and every toy stays   *)
(* in the table with the name and color it has.                           *)
C10_ToysNeverEdited ==
    /\ [](\A p \in Paths : Resolved[p].view \notin {"ToyUpdate", "ToyDelete"})
    /\ [][\A t \in DOMAIN toys : t \in DOMAIN toys' /\ toys'[t] = toys[t]]_vars

C10_Witness ==
    /\ request.method = "POST"
    /\ request.path \in {<<"toys", IdStr[t], "delete">> : t \in DOMAIN toys}
    /\ response.status = "Http404"
====
